---- MODULE Spec2Model ----
(***************************************************************************)
(* Model of MergeGistDX.py: OpenDX.read (parse one sub-grid file, strip    *)
(* the surface voxels, key the interior by rounded coordinate) and main    *)
(* (merge the per-file maps, derive the box geometry, validate, linearize  *)
(* in raster order, write).                                                *)
(*                                                                         *)
(* Real numbers are exact decimals counted in units of 0.0001, so that     *)
(* round(v, 3) is a real rounding step (to a multiple of KeyQuantum).      *)
(* Binary floating-point error is not modelled.  A payload value is the    *)
(* opaque pair <<tag of its file, 0-based position in the flat payload>>:  *)
(* the program only moves values, it never computes with them.  An input   *)
(* file is the record of what read extracts from its text: gridcounts,     *)
(* declared item count, origin, the three delta lines and the number of    *)
(* payload values.                                                         *)
(***************************************************************************)
EXTENDS Integers, Sequences, FiniteSets, TLC

\* ------------------------------------------------------------------ bounds
MaxX == 6
MaxYZ == 4
MaxFiles == 3

\* one key quantum, 0.001 (round(.., 3)), in model units of 0.0001
KeyQuantum == 10

\* ------------------------------------------------------------- arithmetic
Abs(v) == IF v < 0 THEN -v ELSE v

\* round(n/d) to the nearest integer, halves away from zero (Python 2 round)
RoundDiv(n, d) ==
  LET nn == IF d < 0 THEN -n ELSE n
      dd == Abs(d)
  IN IF nn >= 0 THEN (2 * nn + dd) \div (2 * dd)
                ELSE -((2 * (-nn) + dd) \div (2 * dd))

\* round(n/d, 3): the value n/d (in units) rounded to a multiple of 0.001
Round3(n, d) == RoundDiv(n, d * KeyQuantum) * KeyQuantum

Prod(t) == t[1] * t[2] * t[3]

SetMax(S) == CHOOSE m \in S : \A v \in S : v <= m
SetMin(S) == CHOOSE m \in S : \A v \in S : m <= v

EmptyDict == [k \in {} |-> <<0, 0>>]

\* ---------------------------------------------------------- OpenDX.read
\* the surface count with the shared edges of the y faces counted twice
HaloCountEdgesTwice(gc) ==
  gc[1] * gc[2] * 2 + gc[2] * gc[3] * 2 + (gc[1] - 2) * (gc[3] - 2) * 2

\* number of voxels on the surface of an (a,b,c) box, as the code computes it
HaloCount(gc) ==
  gc[1] * gc[2] * 2 + gc[2] * (gc[3] - 2) * 2 + (gc[1] - 2) * (gc[3] - 2) * 2

\* all index triples of the walk, x outer, y middle, z inner
Indices(gc) == (0 .. gc[1] - 1) \X (0 .. gc[2] - 1) \X (0 .. gc[3] - 1)

\* the skip tests if the upper faces were compared with the count itself
IsSurfaceLowerOnly(gc, i) ==
  \/ i[1] = 0 \/ i[1] = gc[1]
  \/ i[2] = 0 \/ i[2] = gc[2]
  \/ i[3] = 0 \/ i[3] = gc[3]

\* the three "skip the datapoint" tests of the walk
IsSurface(gc, i) ==
  \/ i[1] = 0 \/ i[1] = gc[1] - 1
  \/ i[2] = 0 \/ i[2] = gc[2] - 1
  \/ i[3] = 0 \/ i[3] = gc[3] - 1

Interior(gc) == {i \in Indices(gc) : ~IsSurface(gc, i)}

\* the cursor if it were advanced for the retained voxels only
CursorRetainedOnly(gc, i) ==
  (i[1] - 1) * (gc[2] - 2) * (gc[3] - 2) + (i[2] - 1) * (gc[3] - 2) + (i[3] - 1)

\* value of the cursor c when the walk is at index i: c starts at 0 and is
\* advanced once in every iteration, skipped or not
Cursor(gc, i) == i[1] * gc[2] * gc[3] + i[2] * gc[3] + i[3]

\* loc: the rounded absolute coordinate of index i
Loc(origin, delta, i) ==
  << Round3(origin[1] + delta * i[1], 1),
     Round3(origin[2] + delta * i[2], 1),
     Round3(origin[3] + delta * i[3], 1) >>

\* the non-zero components of one delta line
NonZero(line) == SelectSeq(line, LAMBDA v : v # 0)

\* some delta line does not have exactly one non-zero component: exit(...)
BadDelta(f) == \E n \in 1 .. Len(f.deltas) : Len(NonZero(f.deltas[n])) # 1

\* self.delta after the header loop: the last delta line wins
LastDelta(f) == NonZero(f.deltas[Len(f.deltas)])[1]

\* data_array[c]
Payload(f, c) == <<f.tag, c>>

\* data_dict built by the walk; a later index overwrites an earlier one that
\* rounds to the same loc
WalkDict(f, delta) ==
  LET I == Interior(f.gc)
      K == {Loc(f.origin, delta, i) : i \in I}
  IN [k \in K |->
        Payload(f, SetMax({Cursor(f.gc, i) : i \in {j \in I : Loc(f.origin, delta, j) = k}}))]

\* OpenDX.read as a function of the file's contents
Read(f) ==
  IF BadDelta(f)
  THEN [err |-> "FormatError", delta |-> 0, origin |-> f.origin, gridcounts |-> f.gc,
        ngridpoints |-> f.ngridpoints, nskipped |-> 0, data_dict |-> EmptyDict]
  ELSE LET delta == LastDelta(f)
           dd == WalkDict(f, delta)
           skipped == Cardinality({i \in Indices(f.gc) : IsSurface(f.gc, i)})
       IN IF \E i \in Interior(f.gc) : Cursor(f.gc, i) >= f.npayload
          THEN [err |-> "IndexError", delta |-> delta, origin |-> f.origin,
                gridcounts |-> f.gc, ngridpoints |-> f.ngridpoints,
                nskipped |-> 0, data_dict |-> EmptyDict]
          ELSE [err |-> IF f.npayload - HaloCount(f.gc) = Cardinality(DOMAIN dd)
                        THEN "none" ELSE "AssertionError",
                delta |-> delta, origin |-> f.origin, gridcounts |-> f.gc,
                ngridpoints |-> f.ngridpoints, nskipped |-> skipped, data_dict |-> dd]

\* ------------------------------------------------------------------ main
\* box_data_dict.update(dx.data_dict): the later map wins on a shared key
Update(d, e) ==
  [k \in (DOMAIN d) \cup (DOMAIN e) |-> IF k \in DOMAIN e THEN e[k] ELSE d[k]]

\* the accumulators before the first file
Acc0 == [origin |-> <<0, 0, 0>>, spacing |-> 0, n |-> 0, dict |-> EmptyDict]

\* the iteration if the expected count were assigned instead of accumulated
AbsorbLastCount(acc, r, first) ==
  [spacing |-> r.delta,
   origin  |-> IF first
               THEN <<r.origin[1] + r.delta, r.origin[2] + r.delta, r.origin[3] + r.delta>>
               ELSE acc.origin,
   n       |-> r.ngridpoints - HaloCount(r.gridcounts),
   dict    |-> Update(acc.dict, r.data_dict)]

\* one iteration of the file loop, after dx.read succeeded with result r
Absorb(acc, r, first) ==
  [spacing |-> r.delta,
   origin  |-> IF first
               THEN <<r.origin[1] + r.delta, r.origin[2] + r.delta, r.origin[3] + r.delta>>
               ELSE acc.origin,
   n       |-> acc.n + (r.ngridpoints - HaloCount(r.gridcounts)),
   dict    |-> Update(acc.dict, r.data_dict)]

AxisMin(d) == [ax \in 1 .. 3 |-> SetMin({k[ax] : k \in DOMAIN d})]
AxisMax(d) == [ax \in 1 .. 3 |-> SetMax({k[ax] : k \in DOMAIN d})]

\* int(round(len/box_spacing + 1))
Count(len, spacing) == RoundDiv(len + spacing, spacing)

Counts(lo, hi, spacing) == [ax \in 1 .. 3 |-> Count(hi[ax] - lo[ax], spacing)]

\* the checks if they were left out
NgridUnchecked(n, d) == TRUE
OriginUnchecked(origin, lo) == TRUE

\* the three "a few checks just in case" assertions
NgridMatchesDict(n, d) == n = Cardinality(DOMAIN d)
NgridMatchesCounts(n, counts) == n = Prod(counts)
OriginMatchesMin(origin, lo) == \A ax \in 1 .. 3 : origin[ax] = lo[ax]

\* round(np.linspace(lo, hi, num=n)[i], 3)
LinCoord(lo, hi, n, i) ==
  IF n = 1 THEN Round3(lo, 1)
  ELSE Round3(lo * (n - 1) + i * (hi - lo), n - 1)

\* the key looked up at 0-based position p of the nested x, y, z loops
RasterKey(lo, hi, counts, p) ==
  << LinCoord(lo[1], hi[1], counts[1], p \div (counts[2] * counts[3])),
     LinCoord(lo[2], hi[2], counts[2], (p \div counts[3]) % counts[2]),
     LinCoord(lo[3], hi[3], counts[3], p % counts[3]) >>

\* the error kinds np.linspace can end the run with for a negative num:
\* newer numpy raises ValueError, older numpy returns an empty array and the
\* length assertion after the loops fails
NegativeNumOutcomes == {"ValueError", "AssertionError"}

\* the "Sorting the grid data" loops: the outcome and the array built
Linearize(d, lo, hi, counts, n) ==
  IF \E ax \in 1 .. 3 : counts[ax] < 0
  THEN [err |-> "NegativeNum", data |-> <<>>]
  ELSE LET total == Prod(counts)
       IN IF \E p \in 0 .. total - 1 : RasterKey(lo, hi, counts, p) \notin DOMAIN d
          THEN [err |-> "KeyError", data |-> <<>>]
          ELSE IF total # n
               THEN [err |-> "AssertionError", data |-> <<>>]
               ELSE [err |-> "none",
                     data |-> [q \in 1 .. total |-> d[RasterKey(lo, hi, counts, q - 1)]]]

\* the file loop over the first k files of fs, as one function
RECURSIVE AbsorbAll(_, _)
AbsorbAll(fs, k) ==
  IF k = 0 THEN [err |-> "none", acc |-> Acc0]
  ELSE LET prev == AbsorbAll(fs, k - 1)
       IN IF prev.err # "none" THEN prev
          ELSE LET r == Read(fs[k])
               IN IF r.err # "none" THEN [err |-> r.err, acc |-> prev.acc]
                  ELSE [err |-> "none", acc |-> Absorb(prev.acc, r, k = 1)]

Failed == [ok |-> FALSE, origin |-> <<0, 0, 0>>, counts |-> <<0, 0, 0>>, n |-> 0, data |-> <<>>]

\* main as a function of the file list: what it hands to LargeBox.write, or
\* ok = FALSE when the run ends before the write
MergeResult(fs) ==
  LET a == AbsorbAll(fs, Len(fs))
  IN IF a.err # "none" \/ DOMAIN a.acc.dict = {} THEN Failed
     ELSE LET lo == AxisMin(a.acc.dict)
              hi == AxisMax(a.acc.dict)
              cn == Counts(lo, hi, a.acc.spacing)
          IN IF ~(/\ NgridMatchesDict(a.acc.n, a.acc.dict)
                  /\ NgridMatchesCounts(a.acc.n, cn)
                  /\ OriginMatchesMin(a.acc.origin, lo))
             THEN Failed
             ELSE LET l == Linearize(a.acc.dict, lo, hi, cn, a.acc.n)
                  IN IF l.err # "none" THEN Failed
                     ELSE [ok |-> TRUE, origin |-> a.acc.origin,
                           counts |-> <<cn[1], cn[2], cn[3]>>, n |-> a.acc.n, data |-> l.data]

\* ----------------------------------------------------------------- inputs
StdDeltas(s) == << <<s, 0, 0>>, <<0, s, 0>>, <<0, 0, s>> >>

File(gc, origin, deltas, nd, np, tag) ==
  [gc |-> gc, origin |-> origin, deltas |-> deltas, ngridpoints |-> nd,
   npayload |-> np, tag |-> tag]

\* spacings 1.0, 1.0002, 0.5 and -1.0
Spacings == {10000, 10002, 5000, -10000}

DeltaVariants ==
  {StdDeltas(s) : s \in Spacings}
    \cup { << <<10000, 10000, 0>>, <<0, 10000, 0>>, <<0, 0, 10000>> >>,
           << <<10000, 0, 0>>, <<0, 10000, 0>>, <<0, 0, 0>> >>,
           << <<10000, 0, 0>>, <<0, 10000, 0>>, <<0, 0, 20000>> >> }

\* origins (0,0,0), (-1.0002,-1.0002,-1.0002) and (0.0005,0.0005,0.0005)
WideOrigins == {<<0, 0, 0>>, <<-10002, -10002, -10002>>, <<5, 5, 5>>}

WideGC == (1 .. MaxX) \X (1 .. MaxYZ) \X (1 .. MaxYZ)

\* one file, of any shape: header and payload agree or disagree in every way
WideFiles ==
  UNION {
    { File(gc, o, d, nd, np, 1) :
        o \in WideOrigins, d \in DeltaVariants,
        nd \in {Prod(gc), Prod(gc) - 1},
        np \in {gc[2] * gc[3], Prod(gc) - 1, Prod(gc), Prod(gc) + 1, HaloCount(gc)} }
    : gc \in WideGC }

Shift(k) == <<k * 10000, 0, 0>>

\* sub-grids of spacing 1.0 placed along x, for the lists of several files
NarrowFiles ==
  { File(<<4, 4, 4>>, Shift(k), StdDeltas(10000), 64, 64, 0) : k \in {0, 1, 2} }
    \cup { File(<<3, 3, 3>>, Shift(k), StdDeltas(10000), 27, 27, 0) : k \in {0, 1} }
    \cup { File(<<3, 3, 3>>, <<5000, 5000, 5000>>, StdDeltas(10000), 27, 27, 0),
           File(<<4, 4, 4>>, Shift(0), StdDeltas(20000), 64, 64, 0),
           File(<<2, 3, 3>>, Shift(0), StdDeltas(10000), 18, 18, 0),
           File(<<1, 3, 3>>, Shift(0), StdDeltas(10000), 9, 9, 0),
           File(<<1, 3, 3>>, Shift(0), StdDeltas(10000), 9, 10, 0),
           File(<<3, 3, 3>>, Shift(0), StdDeltas(-10000), 27, 27, 0),
           File(<<3, 3, 3>>, <<20000, 30000, 0>>, StdDeltas(-10000), 27, 27, 0) }

\* the files a list of more than two files continues with
MoreFiles ==
  { File(<<4, 4, 4>>, Shift(4), StdDeltas(10000), 64, 64, 0),
    File(<<3, 3, 3>>, Shift(0), StdDeltas(10000), 27, 27, 0),
    File(<<2, 3, 3>>, Shift(0), StdDeltas(10000), 18, 18, 0),
    File(<<1, 3, 3>>, Shift(0), StdDeltas(10000), 9, 10, 0) }

\* the file at position k of a list carries tag k
Tagged(fs) == [k \in DOMAIN fs |-> [fs[k] EXCEPT !.tag = k]]

FileLists ==
  { <<f>> : f \in WideFiles }
    \cup UNION { { Tagged(<<f, g>> \o rest) : f \in NarrowFiles, g \in NarrowFiles }
                 : rest \in UNION { [1 .. m -> MoreFiles] : m \in 0 .. MaxFiles - 2 } }

\* ------------------------------------------------------------------ state
VARIABLES files, pc, idx, dx, box_origin, box_spacing, box_ngridpoints,
          box_data_dict, box_min, box_max, box_gridcounts, box_data_array,
          err, written, outfile

vars == <<files, pc, idx, dx, box_origin, box_spacing, box_ngridpoints,
          box_data_dict, box_min, box_max, box_gridcounts, box_data_array,
          err, written, outfile>>

NoDx == [err |-> "none", delta |-> 0, origin |-> <<0, 0, 0>>, gridcounts |-> <<0, 0, 0>>,
         ngridpoints |-> 0, nskipped |-> 0, data_dict |-> EmptyDict]

NoFile == [gridcounts |-> <<0, 0, 0>>, ngridpoints |-> 0, nvalues |-> 0]

Init ==
  /\ files \in FileLists
  /\ pc = "read"
  /\ idx = 0
  /\ dx = NoDx
  /\ box_origin = Acc0.origin
  /\ box_spacing = Acc0.spacing
  /\ box_ngridpoints = Acc0.n
  /\ box_data_dict = Acc0.dict
  /\ box_min = <<0, 0, 0>>
  /\ box_max = <<0, 0, 0>>
  /\ box_gridcounts = <<0, 0, 0>>
  /\ box_data_array = <<>>
  /\ err = "none"
  /\ written = 0
  /\ outfile = NoFile

Acc == [origin |-> box_origin, spacing |-> box_spacing, n |-> box_ngridpoints,
        dict |-> box_data_dict]

\* one iteration of "for idx, dx_file in enumerate(dxfiles)"
ReadFile ==
  /\ pc = "read"
  /\ idx < Len(files)
  /\ LET r == Read(files[idx + 1])
         a == Absorb(Acc, r, idx = 0)
     IN /\ dx' = r
        /\ IF r.err # "none"
           THEN /\ pc' = "error"
                /\ err' = r.err
                /\ UNCHANGED <<idx, box_origin, box_spacing, box_ngridpoints, box_data_dict>>
           ELSE /\ pc' = IF idx + 1 = Len(files) THEN "derive" ELSE "read"
                /\ idx' = idx + 1
                /\ box_origin' = a.origin
                /\ box_spacing' = a.spacing
                /\ box_ngridpoints' = a.n
                /\ box_data_dict' = a.dict
                /\ err' = err
  /\ UNCHANGED <<files, box_min, box_max, box_gridcounts, box_data_array, written, outfile>>

\* "Find number of gridpoints for each dimension"; max() of an empty dict
\* raises ValueError
DeriveGeometry ==
  /\ pc = "derive"
  /\ IF DOMAIN box_data_dict = {}
     THEN /\ pc' = "error"
          /\ err' = "ValueError"
          /\ UNCHANGED <<box_min, box_max, box_gridcounts>>
     ELSE /\ box_min' = <<AxisMin(box_data_dict)[1], AxisMin(box_data_dict)[2], AxisMin(box_data_dict)[3]>>
          /\ box_max' = <<AxisMax(box_data_dict)[1], AxisMax(box_data_dict)[2], AxisMax(box_data_dict)[3]>>
          /\ box_gridcounts' =
               LET cn == Counts(AxisMin(box_data_dict), AxisMax(box_data_dict), box_spacing)
               IN <<cn[1], cn[2], cn[3]>>
          /\ pc' = "check"
          /\ err' = err
  /\ UNCHANGED <<files, idx, dx, box_origin, box_spacing, box_ngridpoints,
                 box_data_dict, box_data_array, written, outfile>>

\* "a few checks just in case"
Validate ==
  /\ pc = "check"
  /\ IF /\ NgridMatchesDict(box_ngridpoints, box_data_dict)
        /\ NgridMatchesCounts(box_ngridpoints, box_gridcounts)
        /\ OriginMatchesMin(box_origin, box_min)
     THEN pc' = "linearize" /\ err' = err
     ELSE pc' = "error" /\ err' = "AssertionError"
  /\ UNCHANGED <<files, idx, dx, box_origin, box_spacing, box_ngridpoints, box_data_dict,
                 box_min, box_max, box_gridcounts, box_data_array, written, outfile>>

\* "Turn the data dict into the proper array"
Sort ==
  /\ pc = "linearize"
  /\ LET l == Linearize(box_data_dict, box_min, box_max, box_gridcounts, box_ngridpoints)
     IN /\ box_data_array' = l.data
        /\ \E e \in NegativeNumOutcomes :
             err' = IF l.err = "NegativeNum" THEN e
                    ELSE IF l.err = "none" THEN err ELSE l.err
        /\ pc' = IF l.err = "none" THEN "write" ELSE "error"
  /\ UNCHANGED <<files, idx, dx, box_origin, box_spacing, box_ngridpoints, box_data_dict,
                 box_min, box_max, box_gridcounts, written, outfile>>

\* "Save Merged DX file": LargeBox.write(args.outfname)
Write ==
  /\ pc = "write"
  /\ written' = written + 1
  /\ outfile' = [gridcounts |-> box_gridcounts, ngridpoints |-> box_ngridpoints,
                 nvalues |-> Len(box_data_array)]
  /\ pc' = "done"
  /\ UNCHANGED <<files, idx, dx, box_origin, box_spacing, box_ngridpoints, box_data_dict,
                 box_min, box_max, box_gridcounts, box_data_array, err>>

Next == ReadFile \/ DeriveGeometry \/ Validate \/ Sort \/ Write

Spec == Init /\ [][Next]_vars

\* ----------------------------------------------------------- properties
ParsesOk(f) == Read(f).err = "none"

\* every file parses and all files declare the same spacing
SharedSpacing(fs) ==
  /\ \A k \in DOMAIN fs : ParsesOk(fs[k])
  /\ \A k, m \in DOMAIN fs : LastDelta(fs[k]) = LastDelta(fs[m])

\* the per-file VoxelMaps have pairwise no key in common
DisjointMaps(fs) ==
  \A k, m \in DOMAIN fs :
    k # m => (DOMAIN Read(fs[k]).data_dict) \cap (DOMAIN Read(fs[m]).data_dict) = {}

\* the minimum and maximum coordinate among the keys of the global map
KeyMin(ax) == SetMin({k[ax] : k \in DOMAIN box_data_dict})
KeyMax(ax) == SetMax({k[ax] : k \in DOMAIN box_data_dict})

\* round((max - min)/spacing) + 1 over the keys of the global map
DerivedCount(ax) == RoundDiv(KeyMax(ax) - KeyMin(ax), box_spacing) + 1

\* 1-based position in the output sequence of the grid point nearest to the
\* coordinate co, x outer, y middle, z inner over the derived counts
RasterPos(co) ==
  LET ix == RoundDiv(co[1] - box_min[1], box_spacing)
      iy == RoundDiv(co[2] - box_min[2], box_spacing)
      iz == RoundDiv(co[3] - box_min[3], box_spacing)
  IN ix * box_gridcounts[2] * box_gridcounts[3] + iy * box_gridcounts[3] + iz + 1

\* C1: round trip by coordinate identity.  When a merge of files that share
\* one spacing and have pairwise disjoint interior coordinate sets succeeds,
\* every interior index (x,y,z) of every file finds its payload value
\* flat[x*ny*nz + y*nz + z] in the output at the raster position of the
\* coordinate origin + spacing*(x,y,z).
C1_RoundTrip ==
  (pc = "done" /\ SharedSpacing(files) /\ DisjointMaps(files)) =>
    \A k \in DOMAIN files :
      \A i \in Interior(files[k].gc) :
        LET f == files[k]
            co == << f.origin[1] + box_spacing * i[1],
                     f.origin[2] + box_spacing * i[2],
                     f.origin[3] + box_spacing * i[3] >>
            p == RasterPos(co)
        IN /\ p \in 1 .. Len(box_data_array)
           /\ box_data_array[p] = <<f.tag, i[1] * f.gc[2] * f.gc[3] + i[2] * f.gc[3] + i[3]>>

C1_Witness ==
  /\ pc = "done" /\ Len(files) = 2 /\ SharedSpacing(files) /\ DisjointMaps(files)
  /\ Len(box_data_array) = 16
  /\ box_data_array[16] = <<2, 42>>

\* C2: no output on failure.  The output file is written at most once, and
\* only after every file parsed without error, the three checks hold and
\* the output sequence has the total point count as its length; a run that
\* ended in an error, and a run over a file with a delta line that has not
\* exactly one non-zero component, has written nothing.
C2_NoOutputOnFailure ==
  /\ written <= 1
  /\ written = 1 =>
       /\ pc = "done"
       /\ idx = Len(files)
       /\ \A k \in DOMAIN files : ~BadDelta(files[k]) /\ ParsesOk(files[k])
       /\ box_ngridpoints = Cardinality(DOMAIN box_data_dict)
       /\ box_ngridpoints = DerivedCount(1) * DerivedCount(2) * DerivedCount(3)
       /\ \A ax \in 1 .. 3 : box_origin[ax] = KeyMin(ax)
       /\ Len(box_data_array) = box_ngridpoints
       /\ \A p \in 1 .. Len(box_data_array) :
            RasterKey(box_min, box_max, box_gridcounts, p - 1) \in DOMAIN box_data_dict
  /\ pc = "error" => written = 0 /\ ~ENABLED Next
  /\ (\E k \in DOMAIN files : BadDelta(files[k])) => written = 0

C2_Witness ==
  /\ pc = "error" /\ err = "AssertionError" /\ idx = Len(files) /\ Len(files) = 2
  /\ written = 0
  /\ box_ngridpoints = Cardinality(DOMAIN box_data_dict)
  /\ box_ngridpoints = Prod(box_gridcounts)

\* C3: at the write step the total point count of the output header equals
\* the size of the global VoxelMap, the product of the three derived counts
\* and the length of the output value sequence.
C3_CountsAgreeAtWrite ==
  /\ pc = "write" =>
       /\ box_ngridpoints = Cardinality(DOMAIN box_data_dict)
       /\ box_ngridpoints = DerivedCount(1) * DerivedCount(2) * DerivedCount(3)
       /\ box_ngridpoints = Len(box_data_array)
  /\ written = 1 =>
       /\ outfile.ngridpoints = Cardinality(DOMAIN box_data_dict)
       /\ outfile.ngridpoints = DerivedCount(1) * DerivedCount(2) * DerivedCount(3)
       /\ outfile.ngridpoints = Len(box_data_array)
       /\ outfile.nvalues = outfile.ngridpoints
       /\ Prod(outfile.gridcounts) = outfile.ngridpoints

C3_Witness ==
  /\ written = 1 /\ Len(files) = 2 /\ outfile.ngridpoints = 16
  /\ outfile.gridcounts = <<4, 2, 2>>

\* C4: for a box with a, b, c >= 3 the surface-voxel formula equals the
\* number of indices the walk of read skips, and a*b*c minus the formula
\* equals (a-2)*(b-2)*(c-2).
C4_HaloFormula ==
  (/\ dx.err \in {"none", "AssertionError"}
   /\ \A ax \in 1 .. 3 : dx.gridcounts[ax] >= 3) =>
    /\ HaloCount(dx.gridcounts) = dx.nskipped
    /\ Prod(dx.gridcounts) - HaloCount(dx.gridcounts)
         = (dx.gridcounts[1] - 2) * (dx.gridcounts[2] - 2) * (dx.gridcounts[3] - 2)
    /\ dx.nskipped + Cardinality(Interior(dx.gridcounts)) = Prod(dx.gridcounts)

C4_Witness ==
  /\ dx.err = "none" /\ dx.gridcounts = <<MaxX, 3, MaxYZ>>
  /\ dx.nskipped = HaloCount(dx.gridcounts)

\* the processing orders of a list of n files
Orders(n) == {p \in [1 .. n -> 1 .. n] : \A a, b \in 1 .. n : p[a] = p[b] => a = b}

Reorder(fs, p) == [k \in DOMAIN fs |-> fs[p[k]]]

Finished == pc \in {"done", "error"}

\* what this run handed to the write, or Failed
OwnResult ==
  IF pc = "done"
  THEN [ok |-> TRUE, origin |-> box_origin, counts |-> box_gridcounts,
        n |-> outfile.ngridpoints, data |-> box_data_array]
  ELSE Failed

\* C5 as claimed: for files that share one spacing and whose VoxelMaps have
\* no key in common, every processing order gives the outcome of this run:
\* the same success or failure and, on success, the same origin, counts,
\* total point count and output sequence.
C5_EveryOrderSameOutcome ==
  (Finished /\ SharedSpacing(files) /\ DisjointMaps(files)) =>
    \A p \in Orders(Len(files)) : MergeResult(Reorder(files, p)) = OwnResult

\* C5 amended: under the same premises every processing order that begins
\* with the same file gives the outcome of this run, and every order that
\* succeeds gives the result of every other order that succeeds.
C5_SameFirstFileSameOutcome ==
  (Finished /\ SharedSpacing(files) /\ DisjointMaps(files)) =>
    \A p \in Orders(Len(files)) :
      LET r == MergeResult(Reorder(files, p))
      IN /\ p[1] = 1 => r = OwnResult
         /\ (r.ok /\ pc = "done") => r = OwnResult

C5_Witness ==
  /\ pc = "done" /\ Len(files) = 3 /\ SharedSpacing(files) /\ DisjointMaps(files)
  /\ Len(box_data_array) = 24
  /\ MergeResult(Reorder(files, <<1, 3, 2>>)) = OwnResult
  /\ ~MergeResult(Reorder(files, <<2, 1, 3>>)).ok

\* the two files of the concrete scenario: 4x4x4, spacing 1.0, origins
\* (0,0,0) and (2,0,0), in this order
Scenario ==
  files = << File(<<4, 4, 4>>, <<0, 0, 0>>, StdDeltas(10000), 64, 64, 1),
             File(<<4, 4, 4>>, <<20000, 0, 0>>, StdDeltas(10000), 64, 64, 2) >>

Coord(x, y, z) == <<x * 10000, y * 10000, z * 10000>>

OverlapNamed == {Coord(2, 1, 1), Coord(2, 1, 2), Coord(2, 2, 1), Coord(2, 2, 2)}

\* C7 as claimed: after both files of the scenario are merged, the map is
\* the union of both interior coordinate sets, the second file's values
\* stand at (2,1,1), (2,1,2), (2,2,1), (2,2,2), and the derived counts and
\* total match the extents.
C7_SecondFileWinsOnOverlap ==
  (Scenario /\ idx = 2) =>
    /\ DOMAIN box_data_dict =
         (DOMAIN Read(files[1]).data_dict) \cup (DOMAIN Read(files[2]).data_dict)
    /\ \A k \in OverlapNamed : k \in DOMAIN box_data_dict /\ box_data_dict[k][1] = 2
    /\ pc \in {"check", "linearize", "write", "done"} =>
         box_gridcounts = <<4, 2, 2>> /\ box_ngridpoints = 16

\* C7 amended: in the scenario the two interior coordinate sets are
\* disjoint ({1,2}x{1,2}x{1,2} and {3,4}x{1,2}x{1,2}); the merged map is
\* their union, nothing is overwritten, (2,1,1), (2,1,2), (2,2,1), (2,2,2)
\* carry the first file's values, the derived counts are (4,2,2) with total
\* 16, and the merge does not fail.
C7_UnionWithoutOverlap ==
  Scenario =>
    /\ pc # "error"
    /\ idx = 2 =>
         /\ DOMAIN box_data_dict = {Coord(x, y, z) : x \in 1 .. 4, y \in 1 .. 2, z \in 1 .. 2}
         /\ \A x \in 1 .. 2, y \in 1 .. 2, z \in 1 .. 2 :
              /\ box_data_dict[Coord(x, y, z)] = <<1, x * 16 + y * 4 + z>>
              /\ box_data_dict[Coord(x + 2, y, z)] = <<2, x * 16 + y * 4 + z>>
         /\ pc \in {"check", "linearize", "write", "done"} =>
              /\ box_gridcounts = <<4, 2, 2>>
              /\ box_ngridpoints = 16
              /\ box_min = Coord(1, 1, 1) /\ box_max = Coord(4, 2, 2)

C7_Witness ==
  /\ Scenario /\ pc = "done" /\ outfile.gridcounts = <<4, 2, 2>>
  /\ box_data_dict[Coord(2, 1, 1)] = <<1, 37>>

\* the interior values of file f in raster order, x outer, y middle, z inner
InteriorValues(f) ==
  [q \in 1 .. (f.gc[1] - 2) * (f.gc[2] - 2) * (f.gc[3] - 2) |->
     LET x == 1 + (q - 1) \div ((f.gc[2] - 2) * (f.gc[3] - 2))
         y == 1 + (((q - 1) \div (f.gc[3] - 2)) % (f.gc[2] - 2))
         z == 1 + ((q - 1) % (f.gc[3] - 2))
     IN <<f.tag, x * f.gc[2] * f.gc[3] + y * f.gc[3] + z>>]

\* C6: a single file with gridcounts a, b, c >= 3 whose declared ngridpoints
\* and payload length are both a*b*c (and whose delta lines each carry the
\* one positive spacing the claim speaks of) merges successfully into counts
\* (a-2,b-2,c-2), origin + spacing, total (a-2)(b-2)(c-2) and exactly its
\* interior values in raster order.
C6_SingleFileInterior ==
  (/\ Finished
   /\ Len(files) = 1
   /\ \A ax \in 1 .. 3 : files[1].gc[ax] >= 3
   /\ files[1].ngridpoints = Prod(files[1].gc)
   /\ files[1].npayload = Prod(files[1].gc)
   /\ ~BadDelta(files[1])
   /\ LastDelta(files[1]) > 0) =>
    LET f == files[1]
    IN /\ pc = "done"
       /\ outfile.gridcounts = <<f.gc[1] - 2, f.gc[2] - 2, f.gc[3] - 2>>
       /\ box_origin = <<f.origin[1] + LastDelta(f), f.origin[2] + LastDelta(f),
                         f.origin[3] + LastDelta(f)>>
       /\ outfile.ngridpoints = (f.gc[1] - 2) * (f.gc[2] - 2) * (f.gc[3] - 2)
       /\ box_data_array = InteriorValues(f)

\* the file the last call of read was given
LastReadFile == IF dx.err = "none" THEN files[idx] ELSE files[idx + 1]

\* C8: read either returns a map with len(flat values) - halo_count =
\* len(map) or fails with the assertion error; a file whose number of payload
\* values differs from nx*ny*nz is rejected with the assertion error, never
\* with another error and never accepted.  (Files with a malformed delta
\* line, which end in the format error, are left aside.)
C8_ParsePostCondition ==
  ((idx > 0 \/ pc = "error") /\ ~BadDelta(LastReadFile)) =>
    /\ dx.err \in {"none", "AssertionError"}
    /\ dx.err = "none" =>
         LastReadFile.npayload - HaloCount(dx.gridcounts) = Cardinality(DOMAIN dx.data_dict)
    /\ LastReadFile.npayload # Prod(LastReadFile.gc) => dx.err = "AssertionError"

\* C9: when every file declares ngridpoints = nx*ny*nz and passes read, two
\* files sharing a coordinate key make the check "expected count = map size"
\* fail, so no run with a shared key gets past the checks.
C9_CollisionNeverPassesChecks ==
  (/\ \A k \in DOMAIN files :
        files[k].ngridpoints = Prod(files[k].gc) /\ ParsesOk(files[k])
   /\ ~DisjointMaps(files)) =>
    pc \notin {"linearize", "write", "done"}

\* the origins differ pairwise by integer multiples of the spacing
AlignedOrigins(fs) ==
  \A k, m \in DOMAIN fs : \A ax \in 1 .. 3 :
    (fs[k].origin[ax] - fs[m].origin[ax]) % Abs(LastDelta(fs[1])) = 0

\* C10: for files that share one (positive) spacing and whose origins differ
\* by integer multiples of it, once the three checks have passed the keys the
\* linearization looks up are exactly the keys of the global map, each
\* looked up once, and no lookup misses.
C10_ChecksRuleOutMissingVoxel ==
  (SharedSpacing(files) /\ LastDelta(files[1]) > 0 /\ AlignedOrigins(files)) =>
    /\ pc = "linearize" =>
         /\ \A ax \in 1 .. 3 : box_gridcounts[ax] > 0
         /\ {RasterKey(box_min, box_max, box_gridcounts, p) :
               p \in 0 .. Prod(box_gridcounts) - 1} = DOMAIN box_data_dict
         /\ \A p, q \in 0 .. Prod(box_gridcounts) - 1 :
              RasterKey(box_min, box_max, box_gridcounts, p)
                = RasterKey(box_min, box_max, box_gridcounts, q) => p = q
    /\ err # "KeyError"

====
